---- MODULE Spec2Model ----
(***************************************************************************)
(* A model of pc_temp_monitor.py: the temperature probes                   *)
(* (get_cpu_temp_from_amd_specific, get_cpu_temp_from_sysfs,               *)
(* get_cpu_temp_from_lm_sensors), their dispatcher                         *)
(* get_cpu_temperature_linux, and the TemperatureMonitor session           *)
(* (connect / send_data / run / stop) with the signal handler of main.     *)
(*                                                                         *)
(* Text is a sequence of one-character strings; "deg" stands for the       *)
(* degree sign.  A temperature is a pair <<n, d>> meaning n/d micro-degrees *)
(* Celsius (d > 1 only for a mean); None is the empty tuple.  A rounded    *)
(* temperature is an integer number of tenths of a degree.                 *)
(***************************************************************************)
EXTENDS Integers, Sequences, FiniteSets, TLC

None == <<>>

(***************************************************************************)
(* Text primitives: str.strip, str.replace('.', ''), str.isdigit,          *)
(* str.lower, the `in` substring test and float().                         *)
(***************************************************************************)
Digits == {"0", "1", "2", "3", "4", "5", "6", "7", "8", "9"}

DigitVal(c) ==
    CASE c = "0" -> 0 [] c = "1" -> 1 [] c = "2" -> 2 [] c = "3" -> 3
      [] c = "4" -> 4 [] c = "5" -> 5 [] c = "6" -> 6 [] c = "7" -> 7
      [] c = "8" -> 8 [] c = "9" -> 9

Whitespace == {" ", "\n", "\t"}

UpperChars ==
    <<"A", "B", "C", "D", "E", "F", "G", "H", "I", "J", "K", "L", "M",
      "N", "O", "P", "Q", "R", "S", "T", "U", "V", "W", "X", "Y", "Z">>

LowerChars ==
    <<"a", "b", "c", "d", "e", "f", "g", "h", "i", "j", "k", "l", "m",
      "n", "o", "p", "q", "r", "s", "t", "u", "v", "w", "x", "y", "z">>

LowerChar(c) ==
    IF \E i \in 1..26 : UpperChars[i] = c
    THEN LowerChars[CHOOSE i \in 1..26 : UpperChars[i] = c]
    ELSE c

lower(s) == [i \in 1..Len(s) |-> LowerChar(s[i])]

RECURSIVE lstrip(_)
lstrip(s) ==
    IF s # <<>> /\ Head(s) \in Whitespace THEN lstrip(Tail(s)) ELSE s

RECURSIVE rstrip(_)
rstrip(s) ==
    IF s # <<>> /\ s[Len(s)] \in Whitespace
    THEN rstrip(SubSeq(s, 1, Len(s) - 1))
    ELSE s

strip(s) == rstrip(lstrip(s))

IsDot(c) == c = "."

NotDot(c) == c # "."

replace_dot(s) == SelectSeq(s, NotDot)

isdigit(s) == s # <<>> /\ \A i \in 1..Len(s) : s[i] \in Digits

contains(s, sub) ==
    \E i \in 0..(Len(s) - Len(sub)) :
        \A j \in 1..Len(sub) : s[i + j] = sub[j]

RECURSIVE DigitsValue(_)
DigitsValue(s) ==
    IF s = <<>> THEN 0
    ELSE 10 * DigitsValue(SubSeq(s, 1, Len(s) - 1)) + DigitVal(s[Len(s)])

RECURSIVE Pow10(_)
Pow10(k) == IF k = 0 THEN 1 ELSE 10 * Pow10(k - 1)

ValueError == <<"ValueError">>

\* float(s) for a text made of digits and dots with at least one digit (what
\* the isdigit guard lets through): ValueError with more than one dot,
\* otherwise the pair <<digits read as an integer, number of decimals>>.
float_unsigned(s) ==
    IF Len(SelectSeq(s, IsDot)) > 1 THEN ValueError
    ELSE LET dot == IF \E i \in 1..Len(s) : s[i] = "."
                    THEN CHOOSE i \in 1..Len(s) : s[i] = "."
                    ELSE Len(s) + 1
         IN  <<DigitsValue(replace_dot(s)), IF dot > Len(s) THEN 0 ELSE Len(s) - dot>>

(***************************************************************************)
(* Floating point.  A temperature <<n, d>> stands for the double nearest   *)
(* to n/(d*10^6): the code obtains it by one correctly rounded division of *)
(* exactly representable operands.  round(x, 1) rounds the exact value of  *)
(* the double, to even on an exact tie, so on a decimal tie the result     *)
(* depends on the sign of the double's representation error.               *)
(***************************************************************************)
MantissaBits == 53

RECURSIVE BitLength(_)
BitLength(i) == IF i = 0 THEN 0 ELSE 1 + BitLength(i \div 2)

\* Sign of double(x) - x for x = I + r/D, by binary long division: k is the
\* number of mantissa bits still to fill, last the last bit kept, started
\* whether the leading one bit has been seen.
RECURSIVE ErrSignFrac(_, _, _, _, _)
ErrSignFrac(r, D, k, last, started) ==
    IF r = 0 THEN 0
    ELSE LET bit  == IF 2 * r >= D THEN 1 ELSE 0
             rest == 2 * r - bit * D
         IN  IF k = 0
             THEN IF bit = 0 THEN -1
                  ELSE IF rest > 0 THEN 1
                  ELSE IF last = 1 THEN 1 ELSE -1
             ELSE IF started \/ bit = 1
                  THEN ErrSignFrac(rest, D, k - 1, bit, TRUE)
                  ELSE ErrSignFrac(rest, D, k, 0, FALSE)

ErrSign(n, D) ==
    LET I == n \div D
    IN  IF I > 0
        THEN ErrSignFrac(n % D, D, MantissaBits - BitLength(I), I % 2, TRUE)
        ELSE ErrSignFrac(n % D, D, MantissaBits, 0, FALSE)

MicroPerDegree == 1000000

MicroPerTenth == 100000

\* round(temp, 1) of a temperature <<n, d>>, in tenths of a degree.
round1(t) ==
    LET U == MicroPerTenth * t[2]
        q == t[1] \div U
        r == t[1] % U
    IN  IF 2 * r < U THEN q
        ELSE IF 2 * r > U THEN q + 1
        ELSE LET e == ErrSign(t[1], MicroPerDegree * t[2])
             IN  IF e > 0 THEN q + 1
                 ELSE IF e < 0 THEN q
                 ELSE IF q % 2 = 0 THEN q ELSE q + 1

MaxPlausible == 120

\* The range test without its upper limit.
plausible_no_upper(t) == 0 <= t[1]

\* The plausibility test `0 <= temp <= 120`.
plausible(t) == 0 <= t[1] /\ t[1] <= MaxPlausible * MicroPerDegree * t[2]

\* a < b for two temperatures.
TempLess(a, b) == a[1] * b[2] < b[1] * a[2]

(***************************************************************************)
(* Files.  A file is [st, text]: st is "missing" (os.path.exists is        *)
(* false), "unreadable" (open or read raises OSError) or "ok".             *)
(***************************************************************************)
File(st, text) == [st |-> st, text |-> text]

\* Number of decimals a file content may carry and still be an exact number
\* of micro-degrees after the division by 1000.
MilliDecimals == 3

\* The parse with the range test made exclusive: `0 < temp < 120`.
parse_temp_exclusive(text) ==
    LET temp_str == strip(text)
    IN  IF temp_str = <<>> \/ ~isdigit(replace_dot(temp_str)) THEN None
        ELSE LET f == float_unsigned(temp_str)
             IN  IF f = ValueError THEN None
                 ELSE LET temp == <<f[1] * Pow10(MilliDecimals - f[2]), 1>>
                      IN  IF 0 < temp[1] /\ temp[1] < MaxPlausible * MicroPerDegree
                          THEN temp ELSE None

\* Lines 183-191 and 227-234: strip, the digits-and-dots guard, float()/1000
\* and the range test; None when the content is skipped.
parse_temp(text) ==
    LET temp_str == strip(text)
    IN  IF temp_str = <<>> \/ ~isdigit(replace_dot(temp_str)) THEN None
        ELSE LET f == float_unsigned(temp_str)
             IN  IF f = ValueError THEN None
                 ELSE LET temp == <<f[1] * Pow10(MilliDecimals - f[2]), 1>>
                      IN  IF plausible(temp) THEN temp ELSE None

AmdPathCount == 3

\* get_cpu_temp_from_amd_specific over the three candidate paths, in order.
RECURSIVE amd_from(_, _)
amd_from(files, i) ==
    IF i > Len(files) THEN None
    ELSE IF files[i].st # "ok" THEN amd_from(files, i + 1)
    ELSE LET temp == parse_temp(files[i].text)
         IN  IF temp # None THEN temp ELSE amd_from(files, i + 1)

get_cpu_temp_from_amd_specific(files) == amd_from(files, 1)

(***************************************************************************)
(* hwmon.  A device is [name, leaves]: name is the state of its name file, *)
(* leaves the temp*_input files in glob order, each [input, label] with    *)
(* input a File and label the state of the sibling label file.             *)
(***************************************************************************)
Leaf(input, label) == [input |-> input, label |-> label]

Device(name, leaves) == [name |-> name, leaves |-> leaves]

\* One temp*_input leaf (lines 224-247) folded into the scan state
\* [temps, bound, raised]: bound tells whether device_name is assigned,
\* raised whether an exception no inner handler catches has escaped.
scan_leaf(acc, leaf) ==
    IF acc.raised \/ leaf.input.st # "ok" THEN acc
    ELSE LET temp == parse_temp(leaf.input.text)
         IN  IF temp = None THEN acc
             ELSE LET got == [acc EXCEPT !.temps = Append(@, temp)]
                  IN  IF leaf.label = "unreadable" THEN got
                      ELSE IF acc.bound THEN got
                      ELSE [got EXCEPT !.raised = TRUE]

RECURSIVE scan_leaves(_, _)
scan_leaves(acc, leaves) ==
    IF leaves = <<>> THEN acc
    ELSE scan_leaves(scan_leaf(acc, Head(leaves)), Tail(leaves))

\* One hwmon directory (lines 213-250).
scan_device(acc, dev) ==
    IF acc.raised \/ dev.name = "unreadable" THEN acc
    ELSE scan_leaves([acc EXCEPT !.bound = @ \/ dev.name = "ok"], dev.leaves)

RECURSIVE scan_devices(_, _)
scan_devices(acc, devs) ==
    IF devs = <<>> THEN acc
    ELSE scan_devices(scan_device(acc, Head(devs)), Tail(devs))

RECURSIVE max_temp(_)
max_temp(temps) ==
    IF Len(temps) = 1 THEN temps[1]
    ELSE LET m == max_temp(Tail(temps))
         IN  IF TempLess(temps[1], m) THEN m ELSE temps[1]

\* get_cpu_temp_from_sysfs over the hwmon directories in glob order.
get_cpu_temp_from_sysfs(devs) ==
    LET acc == scan_devices([temps |-> <<>>, bound |-> FALSE, raised |-> FALSE], devs)
    IN  IF devs = <<>> \/ acc.raised \/ acc.temps = <<>> THEN None
        ELSE max_temp(acc.temps)

(***************************************************************************)
(* lm-sensors.  The tool is [which, status, lines]: which tells whether    *)
(* `which sensors` exits 0, status is "ok" (exit 0), "nonzero", "timeout"  *)
(* (TimeoutExpired) or "error" (any other exception), lines is its stdout  *)
(* split at the line ends.                                                 *)
(***************************************************************************)
Sensors(which, status, lines) == [which |-> which, status |-> status, lines |-> lines]

\* First position at or after p whose character is not in set.
RECURSIVE RunEnd(_, _, _)
RunEnd(line, p, set) ==
    IF p <= Len(line) /\ line[p] \in set THEN RunEnd(line, p + 1, set) ELSE p

CharAt(line, p) == IF p <= Len(line) THEN line[p] ELSE ""

\* re.match of ([+-]?\d+\.?\d*)\s*°C at position i: the end of the group,
\* or 0 when there is no match at i.
group_end_at(line, i) ==
    LET p1 == IF CharAt(line, i) \in {"+", "-"} THEN i + 1 ELSE i
        p2 == RunEnd(line, p1, Digits)
        p3 == IF CharAt(line, p2) = "." THEN p2 + 1 ELSE p2
        p4 == RunEnd(line, p3, Digits)
        p5 == RunEnd(line, p4, Whitespace)
    IN  IF p2 > p1 /\ CharAt(line, p5) = "deg" /\ CharAt(line, p5 + 1) = "C"
        THEN p4 ELSE 0

\* re.search: the group of the leftmost match, None without a match.
re_search_temp(line) ==
    LET hits == {i \in 1..Len(line) : group_end_at(line, i) # 0}
    IN  IF hits = {} THEN None
        ELSE LET i == CHOOSE h \in hits : \A k \in hits : h <= k
             IN  SubSeq(line, i, group_end_at(line, i) - 1)

\* Number of decimals a sensors value may carry.
MicroDecimals == 6

\* float(match.group(1)) as a temperature.
float_signed(g) ==
    LET neg  == Head(g) = "-"
        body == IF Head(g) \in {"+", "-"} THEN Tail(g) ELSE g
        f    == float_unsigned(body)
        mag  == f[1] * Pow10(MicroDecimals - f[2])
    IN  <<IF neg THEN 0 - mag ELSE mag, 1>>

CpuWords ==
    {<<"c", "o", "r", "e">>, <<"c", "p", "u">>,
     <<"p", "a", "c", "k", "a", "g", "e">>, <<"t", "c", "c", "d">>,
     <<"t", "d", "i", "e">>}

\* The line filter of lines 289-293: the label words are looked up in the
\* lower-cased line, the marker '°c' in the line as it is.
line_selected(line) ==
    /\ \E w \in CpuWords : contains(lower(line), w)
    /\ contains(line, <<"deg", "c">>)

\* Lines 288-304 for one line: the temperature appended, None otherwise.
line_temp(line) ==
    IF ~line_selected(line) THEN None
    ELSE LET g == re_search_temp(line)
         IN  IF g = None THEN None
             ELSE LET temp == float_signed(g)
                  IN  IF plausible(temp) THEN temp ELSE None

RECURSIVE collect_temps(_)
collect_temps(lines) ==
    IF lines = <<>> THEN <<>>
    ELSE LET t == line_temp(Head(lines))
         IN  (IF t = None THEN <<>> ELSE <<t>>) \o collect_temps(Tail(lines))

RECURSIVE sum_temps(_)
sum_temps(temps) ==
    IF temps = <<>> THEN 0 ELSE temps[1][1] + sum_temps(Tail(temps))

\* get_cpu_temp_from_lm_sensors.
get_cpu_temp_from_lm_sensors(tool) ==
    IF tool.which # "found" \/ tool.status # "ok" THEN None
    ELSE LET temps == collect_temps(tool.lines)
         IN  IF temps = <<>> THEN None
             ELSE <<sum_temps(temps), Len(temps)>>

(***************************************************************************)
(* The session: TemperatureMonitor, the tick of run() and the signal       *)
(* handler.                                                                *)
(***************************************************************************)
VARIABLES
    serial_conn,    \* "None" or "Serial": self.serial_conn
    is_open,        \* self.serial_conn.is_open (FALSE without a connection)
    running,        \* self.running
    error_count,    \* self.error_count
    pc,             \* where the caller or run() stands
    env,            \* what the host offers the probes during this tick
    temp,           \* the local temp of get_cpu_temperature_linux
    probed,         \* the probes evaluated in this tick, in order
    cpu_temp,       \* the rounded temperature run() received, in tenths
    tick_log,       \* the log records emitted in this tick
    writes,         \* serial_conn.write calls made by send_data in this tick
    warned_count,   \* the count carried by the send warning of this tick, 0 without one
    daemon_mode,    \* self.daemon_mode
    success_counter, \* the local success_counter of run()
    conn_result,    \* how connect() ended: "never", "ok", "open_failed", "handshake_failed"
    run_ret,        \* how the last run() ended: "none", "False", "True" or the exception
    first_fails,    \* send_data calls made while none has returned True yet
    sent_ok,        \* some send_data call has returned True
    failed_ticks,   \* ticks failed since the last successful send
    stop_calls,     \* calls of stop()
    close_calls,    \* calls of serial_conn.close()
    cancelled,      \* a signal or KeyboardInterrupt has been delivered
    probe_fn,       \* the probe under test: "amd", "sysfs", "lm"
    probe_in,       \* its input
    probe_out       \* its result, Pending before the call

sessionVars ==
    <<serial_conn, is_open, running, error_count, pc, env, temp, probed,
      cpu_temp, tick_log, writes, warned_count, daemon_mode, success_counter,
      conn_result, run_ret, first_fails, sent_ok, failed_ticks,
      stop_calls, close_calls, cancelled>>

probeVars == <<probe_fn, probe_in, probe_out>>

vars == <<sessionVars, probeVars>>

max_errors == 10

\* Bound on the stop() calls made by the caller outside run().
MaxStops == 1

NoReading == -1

Pending == <<"pending">>

DefaultTemp == <<40 * MicroPerDegree, 1>>

(***************************************************************************)
(* Sample file contents and sensors output lines.                          *)
(***************************************************************************)
\* '45000'
Txt45000 ==
    <<"4", "5", "0", "0", "0">>

\* '45550\n'
Txt45550nl ==
    <<"4", "5", "5", "5", "0", "\n">>

\* '52000\n'
Txt52000nl ==
    <<"5", "2", "0", "0", "0", "\n">>

\* '38000'
Txt38000 ==
    <<"3", "8", "0", "0", "0">>

\* '120000'
Txt120000 ==
    <<"1", "2", "0", "0", "0", "0">>

\* '120001'
Txt120001 ==
    <<"1", "2", "0", "0", "0", "1">>

\* '130000'
Txt130000 ==
    <<"1", "3", "0", "0", "0", "0">>

\* '-5000'
TxtMinus5000 ==
    <<"-", "5", "0", "0", "0">>

\* 'abc'
TxtAbc ==
    <<"a", "b", "c">>

\* ''
TxtEmpty ==
    <<>>

\* '1.2.3'
TxtDots ==
    <<"1", ".", "2", ".", "3">>

\* '45500.5'
Txt45500p5 ==
    <<"4", "5", "5", "0", "0", ".", "5">>

\* '0'
Txt0 ==
    <<"0">>

\* 'Core 0: +55.0(deg)C'
LineCore0 ==
    <<"C", "o", "r", "e", " ", "0", ":", " ", "+", "5", "5", ".", "0",
      "deg", "C">>

\* 'Core 1: +57.0(deg)C  (high = +80.0(deg)C)'
LineCore1 ==
    <<"C", "o", "r", "e", " ", "1", ":", " ", "+", "5", "7", ".", "0",
      "deg", "C", " ", " ", "(", "h", "i", "g", "h", " ", "=", " ", "+",
      "8", "0", ".", "0", "deg", "C", ")">>

\* 'fan1: 1200 RPM'
LineFan ==
    <<"f", "a", "n", "1", ":", " ", "1", "2", "0", "0", " ", "R", "P",
      "M">>

\* 'temp1: +60.0(deg)C (deg)c'
LineTemp1 ==
    <<"t", "e", "m", "p", "1", ":", " ", "+", "6", "0", ".", "0", "deg",
      "C", " ", "deg", "c">>

\* 'CPU: +130.0(deg)C (deg)c'
LineCpuHot ==
    <<"C", "P", "U", ":", " ", "+", "1", "3", "0", ".", "0", "deg", "C",
      " ", "deg", "c">>

\* 'Package id 0: +56.5(deg)C ((deg)c)'
LinePkgBoth ==
    <<"P", "a", "c", "k", "a", "g", "e", " ", "i", "d", " ", "0", ":", 
      " ", "+", "5", "6", ".", "5", "deg", "C", " ", "(", "deg", "c",
      ")">>

\* 'Tdie: +45.0(deg)c'
LineTdieLower ==
    <<"T", "d", "i", "e", ":", " ", "+", "4", "5", ".", "0", "deg",
      "c">>

\* 'core 2: 49(deg)C (deg)c'
LineCoreBoth ==
    <<"c", "o", "r", "e", " ", "2", ":", " ", "4", "9", "deg", "C", " ",
      "deg", "c">>

(***************************************************************************)
(* What the host offers the probes while the session runs.                 *)
(***************************************************************************)
Missing == File("missing", <<>>)

AmdAbsent == <<Missing, Missing, Missing>>

AmdSecond == <<Missing, File("ok", Txt45550nl), Missing>>

AmdTooHot == <<File("ok", Txt130000), Missing, Missing>>

HwmonTwo ==
    <<Device("ok", <<Leaf(File("ok", Txt38000), "missing")>>),
      Device("ok", <<Leaf(File("ok", Txt52000nl), "ok")>>)>>

HwmonNoName == <<Device("missing", <<Leaf(File("ok", Txt45000), "missing")>>)>>

SensorsAbsent == Sensors("absent", "ok", <<>>)

SensorsStandard == Sensors("found", "ok", <<LineCore0, LineCore1>>)

SensorsBoth == Sensors("found", "ok", <<LinePkgBoth, LineFan, LineCoreBoth>>)

Env(amd, hwmon, sensors) == [amd |-> amd, hwmon |-> hwmon, sensors |-> sensors]

NoSource == Env(AmdAbsent, <<>>, SensorsAbsent)

Envs ==
    {NoSource,
     Env(AmdSecond, HwmonTwo, SensorsBoth),
     Env(AmdTooHot, HwmonTwo, SensorsBoth),
     Env(AmdAbsent, <<>>, SensorsBoth),
     Env(AmdAbsent, HwmonNoName, SensorsStandard),
     Env(AmdTooHot, HwmonNoName, SensorsBoth)}

(***************************************************************************)
(* TemperatureMonitor.                                                     *)
(***************************************************************************)
ClientPcs == {"idle", "returned"}

\* Positions inside the inner try of run(): the tick.
TickPcs == {"load", "amd", "sysfs", "lm", "finish", "send", "resp", "pause"}

\* Positions inside the outer try of run().
LoopPcs == TickPcs \cup {"head", "pause2"}

Mon ==
    [serial_conn |-> serial_conn, is_open |-> is_open, running |-> running,
     stop_calls |-> stop_calls, close_calls |-> close_calls]

SetMon(m) ==
    /\ is_open' = m.is_open
    /\ running' = m.running
    /\ stop_calls' = m.stop_calls
    /\ close_calls' = m.close_calls

\* stop() that forgets to close the connection.
stop_without_close(m) ==
    [m EXCEPT !.running = FALSE, !.stop_calls = @ + 1]

\* stop() that closes without looking at is_open.
stop_unguarded(m) ==
    LET closing == m.serial_conn # "None"
    IN  [m EXCEPT !.running = FALSE,
                  !.is_open = IF closing THEN FALSE ELSE @,
                  !.close_calls = IF closing THEN @ + 1 ELSE @,
                  !.stop_calls = @ + 1]

\* stop(): lines 519-524.
stop(m) ==
    LET closing == m.serial_conn # "None" /\ m.is_open
    IN  [m EXCEPT !.running = FALSE,
                  !.is_open = IF closing THEN FALSE ELSE @,
                  !.close_calls = IF closing THEN @ + 1 ELSE @,
                  !.stop_calls = @ + 1]

\* Line 425: the guard under which send_data calls serial_conn.write.
writes_to(m) == m.serial_conn # "None" /\ m.is_open

\* send_data that trusts the write alone.
send_data_unguarded(m, io) == io = "ok"

\* send_data(): lines 423-433; io is the outcome of serial_conn.write.
send_data(m, io) == writes_to(m) /\ io = "ok"

\* Bound on the successful sends of a run.
MaxSuccesses == 10

LogEvery == 10

\* The throttle shifted by one send.
logs_reading_shifted(daemon, counter) == ~daemon \/ counter % LogEvery = 1

\* Line 469: whether a successful send is logged.
logs_reading(daemon, counter) == ~daemon \/ counter % LogEvery = 0

\* The budget test off by one.
budget_exhausted_late(count) == count > max_errors

\* Lines 482 and 497: the budget test.
budget_exhausted(count) == count >= max_errors

\* A successful send that leaves the count alone.
count_after_success_kept(count) == count

\* Line 465.
count_after_success(count) == 0

InitSession ==
    /\ serial_conn = "None"
    /\ is_open = FALSE
    /\ running = FALSE
    /\ error_count = 0
    /\ pc = "idle"
    /\ env = NoSource
    /\ temp = None
    /\ probed = <<>>
    /\ cpu_temp = NoReading
    /\ tick_log = <<>>
    /\ writes = 0
    /\ warned_count = 0
    /\ daemon_mode \in BOOLEAN
    /\ success_counter = 0
    /\ conn_result = "never"
    /\ run_ret = "none"
    /\ first_fails = 0
    /\ sent_ok = FALSE
    /\ failed_ticks = 0
    /\ stop_calls = 0
    /\ close_calls = 0
    /\ cancelled = FALSE

Init ==
    /\ InitSession
    /\ probe_fn = "none"
    /\ probe_in = <<>>
    /\ probe_out = Pending

tickVars == <<env, temp, probed, cpu_temp, tick_log, writes, warned_count>>

logVars == <<daemon_mode, success_counter>>

countVars == <<error_count, first_fails, sent_ok, failed_ticks>>

monVars == <<is_open, running, stop_calls, close_calls>>

\* connect(): lines 397-421.  outcome tells where it ends: "open_failed"
\* when serial.Serial raises, "handshake_failed" when a later statement
\* (in_waiting, read, write of HELLO) raises, "ok" otherwise.
Connect ==
    /\ pc = "idle"
    /\ conn_result = "never"
    /\ \E outcome \in {"ok", "open_failed", "handshake_failed"} :
        /\ conn_result' = outcome
        /\ serial_conn' = IF outcome = "open_failed" THEN "None" ELSE "Serial"
        /\ is_open' = (outcome # "open_failed")
    /\ UNCHANGED <<running, stop_calls, close_calls, pc, run_ret, cancelled>>
    /\ UNCHANGED <<tickVars, countVars, probeVars, logVars>>

\* run(), lines 437-439: no connection.
RunRefused ==
    /\ pc \in ClientPcs
    /\ serial_conn = "None" \/ ~is_open
    /\ run_ret' = "False"
    /\ UNCHANGED <<pc, serial_conn, monVars, conn_result, cancelled>>
    /\ UNCHANGED <<tickVars, countVars, probeVars, logVars>>

\* run(), lines 441-449: into the loop.
RunStart ==
    /\ pc \in ClientPcs
    /\ ~(serial_conn = "None" \/ ~is_open)
    /\ running' = TRUE
    /\ run_ret' = "none"
    /\ pc' = "head"
    /\ success_counter' = 0
    /\ UNCHANGED <<serial_conn, is_open, stop_calls, close_calls, conn_result, cancelled>>
    /\ UNCHANGED <<tickVars, countVars, probeVars, daemon_mode>>

\* The finally block of run() and what follows it: stop(), then either the
\* return of line 506 or the exception travelling on to the caller.
Leave(m, how) ==
    /\ SetMon(stop(m))
    /\ run_ret' = how
    /\ pc' = IF how = "True" THEN "returned" ELSE "exited"

\* Line 450 with self.running true: a new tick starts.
LoopHead ==
    /\ pc = "head"
    /\ running
    /\ pc' = "load"
    /\ env' \in Envs
    /\ UNCHANGED <<temp, probed, cpu_temp, tick_log, writes, warned_count>>
    /\ UNCHANGED <<serial_conn, monVars, conn_result, run_ret, cancelled>>
    /\ UNCHANGED <<countVars, probeVars, logVars>>

\* Line 450 with self.running false: the loop ends.
LoopExit ==
    /\ pc = "head"
    /\ ~running
    /\ Leave(Mon, "True")
    /\ UNCHANGED <<serial_conn, conn_result, cancelled>>
    /\ UNCHANGED <<tickVars, countVars, probeVars, logVars>>

\* Line 103: get_cpu_load() runs to its end.
SampleLoad ==
    /\ pc = "load"
    /\ pc' = "amd"
    /\ UNCHANGED <<serial_conn, monVars, conn_result, run_ret, cancelled>>
    /\ UNCHANGED <<tickVars, countVars, probeVars, logVars>>

\* The dispatcher without its `if temp is None` guards.
after_probe_unguarded(p, t) ==
    CASE p = "amd" -> "sysfs"
      [] p = "sysfs" -> "lm"
      [] p = "lm" -> "finish"

\* Lines 109-118: the `if temp is None` guards.  After probe p has left t in
\* temp, the next probe to be evaluated, or "finish" for lines 121-125.
after_probe(p, t) ==
    IF t # None THEN "finish"
    ELSE CASE p = "amd" -> "sysfs"
           [] p = "sysfs" -> "lm"
           [] p = "lm" -> "finish"

\* Lines 109-110.
ProbeAmd ==
    /\ pc = "amd"
    /\ temp' = get_cpu_temp_from_amd_specific(env.amd)
    /\ probed' = Append(probed, "amd")
    /\ pc' = after_probe("amd", temp')
    /\ UNCHANGED <<serial_conn, monVars, conn_result, run_ret, cancelled>>
    /\ UNCHANGED <<env, cpu_temp, tick_log, writes, warned_count, countVars, probeVars, logVars>>

\* Lines 113-114.
ProbeSysfs ==
    /\ pc = "sysfs"
    /\ temp' = get_cpu_temp_from_sysfs(env.hwmon)
    /\ probed' = Append(probed, "sysfs")
    /\ pc' = after_probe("sysfs", temp')
    /\ UNCHANGED <<serial_conn, monVars, conn_result, run_ret, cancelled>>
    /\ UNCHANGED <<env, cpu_temp, tick_log, writes, warned_count, countVars, probeVars, logVars>>

\* Lines 117-118.
ProbeLm ==
    /\ pc = "lm"
    /\ temp' = get_cpu_temp_from_lm_sensors(env.sensors)
    /\ probed' = Append(probed, "lm")
    /\ pc' = after_probe("lm", temp')
    /\ UNCHANGED <<serial_conn, monVars, conn_result, run_ret, cancelled>>
    /\ UNCHANGED <<env, cpu_temp, tick_log, writes, warned_count, countVars, probeVars, logVars>>

\* Lines 121-123: the safe default.
or_default(t) == IF t = None THEN DefaultTemp ELSE t

\* Lines 121-125, and lines 453-462 of run() receiving the result.  Neither
\* value is ever None, so the branch of lines 456-459 is never taken.
FinishSample ==
    /\ pc = "finish"
    /\ temp' = or_default(temp)
    /\ tick_log' = IF temp = None THEN Append(tick_log, "warning_default") ELSE tick_log
    /\ cpu_temp' = round1(temp')
    /\ pc' = "send"
    /\ UNCHANGED <<serial_conn, monVars, conn_result, run_ret, cancelled>>
    /\ UNCHANGED <<env, probed, writes, warned_count, countVars, probeVars, logVars>>

\* An exception reaching line 493, or a failed send: lines 479-484 and
\* 494-501.  The count goes up; the loop ends when the budget is spent and
\* goes on at pause otherwise.
CountFailure(record, pause) ==
    /\ error_count' = error_count + 1
    /\ failed_ticks' = failed_ticks + 1
    /\ IF budget_exhausted(error_count')
       THEN /\ tick_log' = tick_log \o <<record, "error_budget">>
            /\ Leave(Mon, "True")
       ELSE /\ tick_log' = Append(tick_log, record)
            /\ pc' = pause
            /\ UNCHANGED <<monVars, run_ret>>

\* Lines 464-484: one send_data call and the bookkeeping of its result.
Send ==
    /\ pc = "send"
    /\ \E io \in {"ok", "fail"} :
        /\ io = "ok" => success_counter < MaxSuccesses
        /\ IF send_data(Mon, io)
           THEN /\ error_count' = count_after_success(error_count)
                /\ failed_ticks' = 0
                /\ sent_ok' = TRUE
                /\ first_fails' = 0
                /\ success_counter' = success_counter + 1
                /\ tick_log' = IF logs_reading(daemon_mode, success_counter')
                               THEN Append(tick_log, "info_reading") ELSE tick_log
                /\ pc' = "resp"
                /\ UNCHANGED <<monVars, run_ret, warned_count>>
           ELSE /\ CountFailure("warning_send", "pause")
                /\ warned_count' = error_count'
                /\ first_fails' = IF sent_ok THEN 0 ELSE first_fails + 1
                /\ UNCHANGED <<sent_ok, success_counter>>
    /\ writes' = IF writes_to(Mon) THEN writes + 1 ELSE writes
    /\ UNCHANGED <<serial_conn, conn_result, cancelled, daemon_mode>>
    /\ UNCHANGED <<env, temp, probed, cpu_temp, probeVars>>

\* Lines 472-477: read_response() and the log of the answer.
ReadResponse ==
    /\ pc = "resp"
    /\ pc' = "pause"
    /\ UNCHANGED <<serial_conn, monVars, conn_result, run_ret, cancelled>>
    /\ UNCHANGED <<tickVars, countVars, probeVars, logVars>>

\* The locals of a tick are dead once its pause is over.
EndTick ==
    /\ env' = NoSource
    /\ temp' = None
    /\ probed' = <<>>
    /\ cpu_temp' = NoReading
    /\ tick_log' = <<>>
    /\ writes' = 0
    /\ warned_count' = 0

\* Line 486: time.sleep(1) runs to its end.
Pause ==
    /\ pc = "pause"
    /\ pc' = "head"
    /\ EndTick
    /\ UNCHANGED <<serial_conn, monVars, conn_result, run_ret, cancelled>>
    /\ UNCHANGED <<countVars, probeVars, logVars>>

\* Line 501: time.sleep(2) runs to its end.
RetryPause ==
    /\ pc = "pause2"
    /\ pc' = "head"
    /\ EndTick
    /\ UNCHANGED <<serial_conn, monVars, conn_result, run_ret, cancelled>>
    /\ UNCHANGED <<countVars, probeVars, logVars>>

\* Where an exception of class Exception raised in the tick ends up: the
\* bare except of get_cpu_load (line 142) takes it during load sampling,
\* the handler of line 493 elsewhere in the tick.
FaultPcs == {"load", "amd", "finish", "resp", "pause"}

\* The handler of line 493 without its count: the exception is logged and
\* the loop retries.
Fault_uncounted ==
    /\ pc \in FaultPcs
    /\ IF pc = "load"
       THEN /\ pc' = "amd"
            /\ UNCHANGED <<monVars, run_ret, tick_log, error_count, failed_ticks>>
       ELSE /\ tick_log' = Append(tick_log, "error_exception")
            /\ pc' = "pause2"
            /\ UNCHANGED <<monVars, run_ret, error_count, failed_ticks>>
    /\ UNCHANGED <<serial_conn, conn_result, cancelled, first_fails, sent_ok>>
    /\ UNCHANGED <<env, temp, probed, cpu_temp, writes, warned_count, probeVars, logVars>>

Fault ==
    /\ pc \in FaultPcs
    /\ IF pc = "load"
       THEN /\ pc' = "amd"
            /\ UNCHANGED <<monVars, run_ret, tick_log, error_count, failed_ticks>>
       ELSE CountFailure("error_exception", "pause2")
    /\ UNCHANGED <<serial_conn, conn_result, cancelled, first_fails, sent_ok>>
    /\ UNCHANGED <<env, temp, probed, cpu_temp, writes, warned_count, probeVars, logVars>>

\* An exception raised by the handler of line 493 itself: nothing of run()
\* catches it, the finally block runs and it leaves run().
FaultInHandler ==
    /\ pc = "pause2"
    /\ Leave(Mon, "Exception")
    /\ UNCHANGED <<serial_conn, conn_result, cancelled>>
    /\ UNCHANGED <<tickVars, countVars, probeVars, logVars>>

\* main.signal_handler (lines 769-772, 790-793) run by SIGINT or SIGTERM:
\* monitor.stop(), then sys.exit(0) raises SystemExit where the main thread
\* stands.  The bare except of line 142 catches it during load sampling and
\* get_cpu_load returns; anywhere else in run() only the finally block sees
\* it.
Signal ==
    /\ pc # "exited"
    /\ cancelled' = TRUE
    /\ IF pc = "load"
       THEN /\ SetMon(stop(Mon))
            /\ pc' = "amd"
            /\ UNCHANGED run_ret
       ELSE IF pc \in LoopPcs
       THEN Leave(stop(Mon), "SystemExit")
       ELSE /\ SetMon(stop(Mon))
            /\ pc' = "exited"
            /\ UNCHANGED run_ret
    /\ UNCHANGED <<serial_conn, conn_result>>
    /\ UNCHANGED <<tickVars, countVars, probeVars, logVars>>

\* KeyboardInterrupt raised in run(): caught by line 142 during load
\* sampling, by lines 488-491 elsewhere in the tick, by nothing at the loop
\* test and in the handler of line 493.
KeyboardInterrupt ==
    /\ pc \in LoopPcs
    /\ cancelled' = TRUE
    /\ IF pc = "load"
       THEN /\ pc' = "amd"
            /\ UNCHANGED <<monVars, run_ret>>
       ELSE IF pc \in TickPcs
       THEN Leave([Mon EXCEPT !.running = FALSE], "True")
       ELSE Leave(Mon, "KeyboardInterrupt")
    /\ UNCHANGED <<serial_conn, conn_result>>
    /\ UNCHANGED <<tickVars, countVars, probeVars, logVars>>

\* stop() called by the owner of the monitor outside run().
StopCall ==
    /\ pc \in ClientPcs
    /\ stop_calls < MaxStops
    /\ SetMon(stop(Mon))
    /\ UNCHANGED <<serial_conn, pc, conn_result, run_ret, cancelled>>
    /\ UNCHANGED <<tickVars, countVars, probeVars, logVars>>

Next ==
    \/ Connect
    \/ RunRefused
    \/ RunStart
    \/ LoopHead
    \/ LoopExit
    \/ SampleLoad
    \/ ProbeAmd
    \/ ProbeSysfs
    \/ ProbeLm
    \/ FinishSample
    \/ Send
    \/ ReadResponse
    \/ Pause
    \/ RetryPause
    \/ Fault
    \/ FaultInHandler
    \/ Signal
    \/ KeyboardInterrupt
    \/ StopCall

Spec == Init /\ [][Next]_vars

(***************************************************************************)
(* The probes on their own: a probe is called once on an input drawn from  *)
(* the sets below.                                                         *)
(***************************************************************************)
SeqsUpTo(S, n) == UNION {[1..k -> S] : k \in 0..n}

\* Bounds on the hwmon directories, on the temp*_input leaves of one
\* directory and on the lines of the sensors output.
MaxDevices == 2

MaxLeaves == 2

MaxLines == 3

SampleTexts ==
    {Txt45000, Txt45550nl, Txt52000nl, Txt38000, Txt120000, Txt120001,
     Txt130000, TxtMinus5000, TxtAbc, TxtEmpty, TxtDots, Txt45500p5, Txt0}

AmdFiles ==
    {Missing, File("unreadable", <<>>)} \cup {File("ok", t) : t \in SampleTexts}

AmdInputs == [1..AmdPathCount -> AmdFiles]

SampleLeaves ==
    {Leaf(File("ok", Txt45000), "missing"),
     Leaf(File("ok", Txt52000nl), "ok"),
     Leaf(File("ok", Txt38000), "unreadable"),
     Leaf(File("ok", Txt130000), "missing"),
     Leaf(File("unreadable", <<>>), "missing")}

NameStates == {"ok", "missing", "unreadable"}

SampleDevices ==
    {Device(name, leaves) : name \in NameStates, leaves \in SeqsUpTo(SampleLeaves, MaxLeaves)}

HwmonInputs == SeqsUpTo(SampleDevices, MaxDevices)

SampleLines ==
    {LineCore0, LineCore1, LineFan, LineTemp1, LineCpuHot, LinePkgBoth,
     LineTdieLower, LineCoreBoth}

SensorsInputs ==
    {Sensors(which, status, lines) :
        which \in {"found", "absent"},
        status \in {"ok", "nonzero", "timeout", "error"},
        lines \in SeqsUpTo(SampleLines, MaxLines)}

InitProbe ==
    /\ InitSession
    /\ probe_out = Pending
    /\ \/ probe_fn = "amd" /\ probe_in \in AmdInputs
       \/ probe_fn = "sysfs" /\ probe_in \in HwmonInputs
       \/ probe_fn = "lm" /\ probe_in \in SensorsInputs

CallAmd ==
    /\ probe_fn = "amd"
    /\ probe_out = Pending
    /\ probe_out' = get_cpu_temp_from_amd_specific(probe_in)
    /\ UNCHANGED <<sessionVars, probe_fn, probe_in>>

CallSysfs ==
    /\ probe_fn = "sysfs"
    /\ probe_out = Pending
    /\ probe_out' = get_cpu_temp_from_sysfs(probe_in)
    /\ UNCHANGED <<sessionVars, probe_fn, probe_in>>

CallLm ==
    /\ probe_fn = "lm"
    /\ probe_out = Pending
    /\ probe_out' = get_cpu_temp_from_lm_sensors(probe_in)
    /\ UNCHANGED <<sessionVars, probe_fn, probe_in>>

NextProbe == CallAmd \/ CallSysfs \/ CallLm

SpecProbe == InitProbe /\ [][NextProbe]_vars

(***************************************************************************)
(* Properties.                                                             *)
(***************************************************************************)
Stopped == pc \in {"returned", "exited"} /\ ~running /\ ~is_open

Logged(record) == \E i \in 1..Len(tick_log) : tick_log[i] = record

\* C1: as long as no send has succeeded, run() has made at most max_errors
\* send_data calls, and once it has made max_errors of them the loop has
\* ended and the session is stopped: there is no further send.
C1_BudgetEndsLoop ==
    ~sent_ok =>
        /\ first_fails <= max_errors
        /\ first_fails = max_errors => Stopped

C1_Witness ==
    /\ ~sent_ok
    /\ first_fails = max_errors
    /\ error_count = max_errors
    /\ pc = "returned"
    /\ Logged("error_budget")

\* C2: error_count is the number of ticks failed since the last successful
\* send (or since the start), it stays within 0..max_errors, it is 0 right
\* after a successful send, and the budget ends the loop only after
\* max_errors failed ticks in a row.
C2_ConsecutiveFailures ==
    /\ error_count = failed_ticks
    /\ error_count \in 0..max_errors
    /\ pc = "resp" => error_count = 0
    /\ Logged("error_budget") => failed_ticks = max_errors

C2_Witness ==
    /\ sent_ok
    /\ pc = "pause"
    /\ error_count = 2
    /\ running

\* C3: once a signal or a KeyboardInterrupt has been delivered, the loop has
\* ended with the connection closed: the run is not at any later point of
\* the tick.
C3_CancelEndsLoop == cancelled => Stopped

\* C4: however run() has left its loop (return, SystemExit,
\* KeyboardInterrupt or an exception), stop() has run, running is false and
\* the connection is closed.
LeftLoop == run_ret \in {"True", "SystemExit", "KeyboardInterrupt", "Exception"}

C4_ExitStops == LeftLoop => ~running /\ ~is_open /\ stop_calls >= 1

C4_Witness ==
    /\ run_ret = "Exception"
    /\ pc = "exited"
    /\ close_calls = 1
    /\ ~is_open

\* C5: a step that calls stop(), once or twice in a row, leaves running
\* false and the connection not open, closes the connection once if it was
\* open and not at all otherwise, and the connection is never closed more
\* than once.
C5_StopIdempotent ==
    [][stop_calls' > stop_calls =>
         /\ ~running'
         /\ ~is_open'
         /\ close_calls' = close_calls + (IF is_open THEN 1 ELSE 0)
         /\ close_calls' <= 1]_vars

C5_Witness ==
    /\ stop_calls >= 2
    /\ close_calls = 1
    /\ ~is_open
    /\ ~running

\* C6: unless connect() has succeeded, run() does not enter its loop: it
\* samples nothing, sends nothing and does not call stop().
C6_RunNeedsConnect ==
    conn_result # "ok" =>
        /\ pc \notin LoopPcs
        /\ run_ret \in {"none", "False"}
        /\ probed = <<>>
        /\ first_fails = 0

\* C7: the probes are evaluated in the order amd, sysfs, lm, none after one
\* has produced a value, and the temperature run() receives is the rounded
\* value of the first probe in that order that yields one on this host, the
\* rounded default when none does.
ProbeOrder == <<"amd", "sysfs", "lm">>

Yield(p) ==
    CASE p = "amd" -> get_cpu_temp_from_amd_specific(env.amd)
      [] p = "sysfs" -> get_cpu_temp_from_sysfs(env.hwmon)
      [] p = "lm" -> get_cpu_temp_from_lm_sensors(env.sensors)

Yielding == {i \in 1..Len(ProbeOrder) : Yield(ProbeOrder[i]) # None}

First(S) == CHOOSE i \in S : \A j \in S : i <= j

C7_ProbeOrder ==
    /\ pc \in TickPcs => probed = SubSeq(ProbeOrder, 1, Len(probed))
    /\ pc = "send" =>
        LET ys == Yielding
        IN  IF ys = {}
            THEN probed = ProbeOrder /\ cpu_temp = round1(DefaultTemp)
            ELSE /\ probed = SubSeq(ProbeOrder, 1, First(ys))
                 /\ cpu_temp = round1(Yield(ProbeOrder[First(ys)]))

C7_Witness ==
    /\ pc = "send"
    /\ probed = <<"amd", "sysfs">>
    /\ Yield("amd") = None
    /\ Yield("lm") # None
    /\ cpu_temp = 520

\* C8: the temperature run() receives is always a value within 0..120
\* degrees; when no probe yields a value it is 40.0 and a warning has been
\* logged.
TenthsPerDegree == 10

C8_AlwaysAReading ==
    pc \in {"send", "resp", "pause"} =>
        /\ cpu_temp \in 0..(MaxPlausible * TenthsPerDegree)
        /\ Yielding = {} =>
            cpu_temp = 40 * TenthsPerDegree /\ Logged("warning_default")

C8_Witness ==
    /\ pc = "send"
    /\ Yielding = {}
    /\ env.hwmon # <<>>
    /\ cpu_temp = 400
    /\ Logged("warning_default")

\* C9: get_cpu_temp_from_sysfs returns the maximum of the plausible readings
\* of all temp*_input leaves of all devices, whatever the name and label
\* files are, and None only when there is no plausible reading.
LeafReadings(dev) ==
    {parse_temp(dev.leaves[i].input.text) :
        i \in {k \in 1..Len(dev.leaves) : dev.leaves[k].input.st = "ok"}} \ {None}

Readings(devs) == UNION {LeafReadings(devs[i]) : i \in 1..Len(devs)}

C9_SysfsMaximum ==
    (probe_fn = "sysfs" /\ probe_out # Pending) =>
        LET rs == Readings(probe_in)
        IN  IF rs = {} THEN probe_out = None
            ELSE probe_out \in rs /\ \A r \in rs : ~TempLess(probe_out, r)

\* C10: with the sensors tool present and exiting 0,
\* get_cpu_temp_from_lm_sensors returns the mean of the in-range values of
\* the lines that carry a CPU label and a value followed by the degree
\* marker, and None only when there is no such line.
labelled_value(line) ==
    IF ~\E w \in CpuWords : contains(lower(line), w) THEN None
    ELSE LET g == re_search_temp(line)
         IN  IF g = None THEN None
             ELSE IF plausible(float_signed(g)) THEN float_signed(g) ELSE None

RECURSIVE labelled_values(_)
labelled_values(lines) ==
    IF lines = <<>> THEN <<>>
    ELSE LET t == labelled_value(Head(lines))
         IN  (IF t = None THEN <<>> ELSE <<t>>) \o labelled_values(Tail(lines))

C10_SensorsMean ==
    (probe_fn = "lm" /\ probe_out # Pending
        /\ probe_in.which = "found" /\ probe_in.status = "ok") =>
        LET vals == labelled_values(probe_in.lines)
        IN  IF vals = <<>> THEN probe_out = None
            ELSE probe_out = <<sum_temps(vals), Len(vals)>>

\* C13: an exception that reaches the handler of the tick is accounted as a
\* failed send is: error_count goes up by one; at max_errors the loop ends
\* and the session is stopped; below it the loop goes on, after the 2-second
\* pause for an exception and the 1-second pause for a failed send, with a
\* new tick; and max_errors failures in a row, of either kind, end the loop.
Records(record) ==
    /\ Len(tick_log') > Len(tick_log)
    /\ tick_log'[Len(tick_log) + 1] = record

Accounted(record, pause) ==
    Records(record) =>
        /\ error_count' = error_count + 1
        /\ IF error_count' >= max_errors
           THEN pc' = "returned" /\ ~running' /\ ~is_open' /\ Logged("error_budget")'
           ELSE pc' = pause /\ running' = running /\ is_open' = is_open

C13_ExceptionCounted ==
    [][/\ Accounted("error_exception", "pause2")
       /\ Accounted("warning_send", "pause")
       /\ (pc = "pause2" /\ pc' \in LoopPcs) => (pc' = "head" /\ error_count' = error_count)
       /\ failed_ticks' >= max_errors => pc' \notin LoopPcs]_vars

C13_Witness ==
    /\ pc = "returned"
    /\ tick_log = <<"warning_send", "error_exception", "error_budget">>
    /\ error_count = max_errors
    /\ ~running

\* C14: once the signal handler has called stop(), the loop does not wait
\* out an inter-tick pause: no pause of line 486 or 501 runs to its end and
\* hands over to the loop test after the request.
PausePcs == {"pause", "pause2"}

StopRequested == cancelled /\ ~running

C14_PauseCancellable ==
    [][~(StopRequested /\ pc \in PausePcs /\ pc' = "head")]_vars

\* C15: a tick makes at most one write call, and only on an open
\* connection; once stop() has closed the connection it stays closed,
\* nothing is written to it, and every send_data call made afterwards
\* reports failure.
Closed == close_calls >= 1

C15_SingleSendNoWriteAfterStop ==
    [][/\ writes' <= 1
       /\ writes' > writes => (pc = "send" /\ is_open /\ ~Closed)
       /\ Closed => /\ ~is_open'
                    /\ writes' <= writes
                    /\ pc' = "resp" => pc = "resp"
                    /\ \A io \in {"ok", "fail"} : ~send_data(Mon, io)]_vars

C15_Witness ==
    /\ Closed
    /\ pc = "pause"
    /\ Logged("warning_send")
    /\ writes = 0
    /\ error_count = 1

\* C16: a successful send emits the info record with the reading in
\* interactive mode always and in daemon mode exactly when it is the 10th,
\* 20th, ... success of the run, failed sends and exceptions leaving that
\* count alone; a failed send emits, in both modes, one warning that carries
\* the error count it has just produced.
SendSucceeds == pc = "send" /\ pc' = "resp"

SendFails == pc = "send" /\ error_count' = error_count + 1

C16_LogThrottle ==
    [][/\ SendSucceeds =>
            /\ success_counter' = success_counter + 1
            /\ IF ~daemon_mode \/ success_counter' % 10 = 0
               THEN tick_log' = Append(tick_log, "info_reading")
               ELSE tick_log' = tick_log
       /\ Records("info_reading") => SendSucceeds
       /\ (pc \in LoopPcs /\ ~SendSucceeds) => success_counter' = success_counter
       /\ SendFails =>
            /\ Records("warning_send")
            /\ warned_count' = error_count'
            /\ ~Logged("warning_send")
       /\ Records("warning_send") => SendFails]_vars

C16_Witness ==
    /\ daemon_mode
    /\ pc = "resp"
    /\ success_counter = 10
    /\ tick_log = <<"warning_default", "info_reading">>

(***************************************************************************)
(* get_cpu_load on IEEE doubles.  A non-negative double is m * 2^exp with  *)
(* m written as 53 bits, least significant first; 0.0 has no bits.  The    *)
(* integers met on the way are longer than a machine word and are bit      *)
(* sequences too.                                                          *)
(***************************************************************************)
RECURSIVE NatBits(_)
NatBits(n) == IF n = 0 THEN <<>> ELSE <<n % 2>> \o NatBits(n \div 2)

Zeros(k) == [i \in 1..k |-> 0]

RECURSIVE trim(_)
trim(bits) ==
    IF bits = <<>> \/ bits[Len(bits)] = 1 THEN bits
    ELSE trim(SubSeq(bits, 1, Len(bits) - 1))

\* bits * k + carry
RECURSIVE times_small(_, _, _)
times_small(bits, k, carry) ==
    IF bits = <<>> THEN NatBits(carry)
    ELSE LET v == Head(bits) * k + carry
         IN  <<v % 2>> \o times_small(Tail(bits), k, v \div 2)

\* a - b - borrow, for a >= b + borrow
RECURSIVE minus(_, _, _)
minus(a, b, borrow) ==
    IF a = <<>> THEN <<>>
    ELSE LET v == Head(a) - (IF b = <<>> THEN 0 ELSE Head(b)) - borrow
         IN  <<v % 2>> \o minus(Tail(a), IF b = <<>> THEN <<>> ELSE Tail(b),
                                IF v < 0 THEN 1 ELSE 0)

\* The binary digits of a division are produced ChunkBits at a time.
ChunkBits == 8

Chunk == 256

\* n as exactly ChunkBits bits
ChunkOf(n) == [i \in 1..ChunkBits |-> (n \div (2 ^ (i - 1))) % 2]

\* The first n chunks of the binary fraction r / b (r < b) and the remainder
\* left after them.
RECURSIVE frac_bits(_, _, _)
frac_bits(r, b, n) ==
    IF n = 0 THEN <<<<>>, r>>
    ELSE LET rest == frac_bits((r * Chunk) % b, b, n - 1)
         IN  <<rest[1] \o ChunkOf((r * Chunk) \div b), rest[2]>>

Zero == [bits |-> <<>>, exp |-> 0]

\* Round-to-nearest-even of bits * 2^exp (plus a positive fraction of the
\* last place when sticky) to a double.
fl_round(bits, exp, sticky) ==
    LET len == Len(bits)
    IN  IF len = 0 THEN Zero
        ELSE IF len <= MantissaBits
        THEN [bits |-> Zeros(MantissaBits - len) \o bits, exp |-> exp - (MantissaBits - len)]
        ELSE LET k     == len - MantissaBits
                 kept  == SubSeq(bits, k + 1, len)
                 below == sticky \/ \E i \in 1..(k - 1) : bits[i] = 1
                 up    == bits[k] = 1 /\ (below \/ kept[1] = 1)
                 inc   == times_small(kept, 1, 1)
             IN  IF ~up THEN [bits |-> kept, exp |-> exp + k]
                 ELSE IF Len(inc) = MantissaBits THEN [bits |-> inc, exp |-> exp + k]
                 ELSE [bits |-> Tail(inc), exp |-> exp + k + 1]

fl_nat(n) == fl_round(NatBits(n), 0, FALSE)

\* a / b of two integers (Python's true division is correctly rounded).
fl_div(a, b) ==
    LET n == (MantissaBits + 2 + BitLength(b)) \div ChunkBits + 1
        d == frac_bits(a % b, b, n)
    IN  fl_round(trim(d[1] \o NatBits(a \div b)), 0 - n * ChunkBits, d[2] # 0)

\* x * k for a small integer k
fl_times(x, k) == fl_round(trim(times_small(x.bits, k, 0)), x.exp, FALSE)

Min(a, b) == IF a < b THEN a ELSE b

\* a < b as integers written as bit sequences of one length
RECURSIVE bits_less(_, _)
bits_less(a, b) ==
    IF a = <<>> THEN FALSE
    ELSE IF a[Len(a)] # b[Len(b)] THEN a[Len(a)] < b[Len(b)]
    ELSE bits_less(SubSeq(a, 1, Len(a) - 1), SubSeq(b, 1, Len(b) - 1))

fl_less(x, y) ==
    IF y = Zero THEN FALSE
    ELSE IF x = Zero THEN TRUE
    ELSE IF x.exp # y.exp THEN x.exp < y.exp
    ELSE bits_less(x.bits, y.bits)

\* x - y for x >= y >= 0
fl_minus(x, y) ==
    IF y = Zero THEN x
    ELSE LET e == Min(x.exp, y.exp)
         IN  fl_round(trim(minus(Zeros(x.exp - e) \o x.bits,
                                 Zeros(y.exp - e) \o y.bits, 0)), e, FALSE)

\* /proc/stat as the function meets it: unreadable, without a "cpu " line,
\* with a field int() refuses, or with the counters of the "cpu " line.
Proc(st, fields) == [st |-> st, fields |-> fields]

RECURSIVE sum(_)
sum(fields) == IF fields = <<>> THEN 0 ELSE Head(fields) + sum(Tail(fields))

IdleField == 4

Percent == 100

FallbackLoad == 5

ErrorLoad == 1

\* Lines 145-166.
get_cpu_load_from_proc(proc) ==
    IF proc.st # "ok" \/ Len(proc.fields) < IdleField THEN fl_nat(FallbackLoad)
    ELSE LET total_time == sum(proc.fields)
             idle_time  == proc.fields[IdleField]
         IN  IF total_time > 0
             THEN fl_minus(fl_nat(Percent), fl_times(fl_div(idle_time, total_time), Percent))
             ELSE fl_nat(FallbackLoad)

\* The interval measurement: psutil raises, or returns a percentage with
\* one decimal.
Interval(st, tenths) == [st |-> st, tenths |-> tenths]

Tenth == fl_div(1, TenthsPerDegree)

fl_max(x, y) == IF fl_less(x, y) THEN y ELSE x

\* get_cpu_load with the floor of line 141 left out.
get_cpu_load_no_floor(first, second, proc) ==
    IF first.st = "raises" \/ second.st = "raises" THEN fl_nat(ErrorLoad)
    ELSE LET measured == fl_div(second.tenths, TenthsPerDegree)
         IN  IF measured = Zero THEN get_cpu_load_from_proc(proc) ELSE measured

\* Lines 127-143.
get_cpu_load(first, second, proc) ==
    IF first.st = "raises" \/ second.st = "raises" THEN fl_nat(ErrorLoad)
    ELSE LET measured == fl_div(second.tenths, TenthsPerDegree)
             cpu_load == IF measured = Zero THEN get_cpu_load_from_proc(proc) ELSE measured
         IN  fl_max(Tenth, cpu_load)

(***************************************************************************)
(* The file-based probes on one file content: the decimal text of an       *)
(* integer number of millidegrees as the kernel writes it, or a content    *)
(* that is no number.  A second candidate holding 38000 follows it.        *)
(***************************************************************************)
DigitChar(d) == CHOOSE c \in Digits : DigitVal(c) = d

RECURSIVE NatText(_)
NatText(n) ==
    IF n < 10 THEN <<DigitChar(n)>>
    ELSE Append(NatText(n \div 10), DigitChar(n % 10))

\* str(m) followed by the line end of a sysfs file.
IntText(m) == (IF m < 0 THEN <<"-">> \o NatText(0 - m) ELSE NatText(m)) \o <<"\n">>

\* Bounds of the millidegree contents tried.
MaxBelowZero == 2000

MaxMilli == 122000

Content(kind, m, text) == [kind |-> kind, m |-> m, text |-> text]

ContentInputs ==
    {Content("int", m, IntText(m)) : m \in (0 - MaxBelowZero)..MaxMilli}
        \cup {Content("text", 0, t) : t \in {TxtEmpty, TxtAbc, TxtDots, <<"\n">>}}

Fallback == <<38000 * 1000, 1>>

InitParse ==
    /\ InitSession
    /\ probe_fn = "content"
    /\ probe_in \in ContentInputs
    /\ probe_out = Pending

\* Both file-based probes on the content, and the rounding of line 125 of
\* what the content alone yields.
CallParse ==
    /\ probe_fn = "content"
    /\ probe_out = Pending
    /\ probe_out' =
        [amd |-> get_cpu_temp_from_amd_specific(
                    <<File("ok", probe_in.text), File("ok", Txt38000), Missing>>),
         sysfs |-> get_cpu_temp_from_sysfs(
                    <<Device("ok", <<Leaf(File("ok", probe_in.text), "missing"),
                                     Leaf(File("ok", Txt38000), "missing")>>)>>),
         alone |-> get_cpu_temp_from_amd_specific(
                    <<File("ok", probe_in.text), Missing, Missing>>)]
    /\ probe_fn' = "parsed"
    /\ UNCHANGED <<sessionVars, probe_in>>

NextParse == CallParse

SpecParse == InitParse /\ [][NextParse]_vars

\* C11: an integer content m is read as m/1000 degrees and accepted exactly
\* when 0 <= m/1000 <= 120; an accepted reading is reported as a tenth of a
\* degree nearest to m/1000; a rejected, empty or non-numeric content makes
\* the probe go on to the next candidate.
Abs(x) == IF x < 0 THEN 0 - x ELSE x

MilliPerDegree == 1000

MicroPerMilli == 1000

C11_MilliParse ==
    probe_fn = "parsed" =>
        LET m        == probe_in.m
            accepted == /\ probe_in.kind = "int"
                        /\ 0 <= m
                        /\ m <= MaxPlausible * MilliPerDegree
            reading  == <<m * MicroPerMilli, 1>>
        IN  IF accepted
            THEN /\ probe_out.amd = reading
                 /\ probe_out.alone = reading
                 /\ probe_out.sysfs = IF TempLess(reading, Fallback) THEN Fallback ELSE reading
                 /\ 2 * Abs(round1(probe_out.alone) * MicroPerTenth - m * MicroPerMilli)
                        <= MicroPerTenth
            ELSE /\ probe_out.amd = Fallback
                 /\ probe_out.alone = None
                 /\ probe_out.sysfs = Fallback

C11_Witness ==
    /\ probe_fn = "parsed"
    /\ probe_in.kind = "int"
    /\ probe_in.m = 120000
    /\ probe_out.alone = <<120000000, 1>>
    /\ round1(probe_out.alone) = 1200

(***************************************************************************)
(* get_cpu_load over the outcomes of its two measurements and of the       *)
(* /proc/stat fallback.                                                    *)
(***************************************************************************)
LoadTenths == {0, 1, 5, 375, 1000}

IntervalOutcomes == {Interval("raises", 0)} \cup {Interval("value", t) : t \in LoadTenths}

ProcOutcomes ==
    {Proc("unreadable", <<>>), Proc("nocpu", <<>>), Proc("garbled", <<>>),
     Proc("ok", <<1, 2>>), Proc("ok", <<0, 0, 0, 0>>)}
        \cup {Proc("ok", <<user, 0, system, idle, 0>>) :
                user \in {0, 100, 430, 999}, system \in {0, 1}, idle \in {0, 1, 570, 900}}

InitLoad ==
    /\ InitSession
    /\ probe_fn = "load"
    /\ probe_in \in [first : {Interval("raises", 0), Interval("value", 3)},
                     second : IntervalOutcomes,
                     proc : ProcOutcomes]
    /\ probe_out = Pending

CallLoad ==
    /\ probe_fn = "load"
    /\ probe_out' = get_cpu_load(probe_in.first, probe_in.second, probe_in.proc)
    /\ probe_fn' = "loaded"
    /\ UNCHANGED <<sessionVars, probe_in>>

NextLoad == CallLoad

SpecLoad == InitLoad /\ [][NextLoad]_vars

\* C12: whatever the interval measurement, the /proc/stat fallback or an
\* exception yields, get_cpu_load returns a load of at least 0.1; a zero
\* measurement with /proc/stat counters idle = 900 of total = 1000 returns
\* exactly 10.0.
ZeroMeasured ==
    /\ probe_in.first.st = "value"
    /\ probe_in.second = Interval("value", 0)

C12_LoadFloor ==
    probe_fn = "loaded" =>
        /\ ~fl_less(probe_out, Tenth)
        /\ (/\ ZeroMeasured
            /\ probe_in.proc.st = "ok"
            /\ Len(probe_in.proc.fields) >= IdleField
            /\ probe_in.proc.fields[IdleField] = 900
            /\ sum(probe_in.proc.fields) = 1000)
              => probe_out = fl_nat(10)

C12_Witness ==
    /\ probe_fn = "loaded"
    /\ ZeroMeasured
    /\ probe_in.proc = Proc("ok", <<100, 0, 0, 900, 0>>)
    /\ probe_out = fl_nat(10)

====
